---- MODULE Spec2Model ----
\* Verification model of the omniFlix block indexer: the cache-aside accessor
\* (GetBlockDetails), the bounded backfill scanner (StartIndexing), the fetch
\* pipeline (FetchAndStoreBlockDetails / getBlockResults / getBlock), the tip
\* resolver and the asynchronous upsert into the blocks table.
EXTENDS Integers, Sequences, FiniteSets, Bags, TLC

\* ------------------------------------------------------------------ bounds
MaxCfg == 1          \* largest height the driver passes as min/max
MaxClock == 2        \* wall-clock readings are 1..MaxClock
MaxPasses == 1       \* backfill passes the driver runs
MaxCalls == 1        \* API requests served while the backfill runs
MaxRequests == 2     \* API requests served in the accessor-only model
MaxReorgs == 1       \* times the upstream data of a height changes
GateExtra == 2       \* heights beyond the semaphore capacity in the gate model

\* --------------------------------------------------------- program constants
SemaphoreCap == 100  \* make(chan struct{}, 100)
StatusOK == 200      \* http.StatusOK

Heights == 1..(MaxCfg + 1)
CfgHeights == 1..MaxCfg
ZeroTime == 0        \* time.Time{}

VARIABLES
  crashed,        \* the process died of an unrecovered panic
  clock,          \* time.Now()
  chain,          \* upstream: version of the data served for each height
  reorgs,         \* number of upstream data changes so far
  db,             \* blocks table: height -> row
  rowCount,       \* height -> rows inserted under that key so far
  lastExec,       \* height -> what the upsert that ran last on that key carried
  tasks,          \* bag of spawned persistence goroutines not yet finished
  lostWrites,     \* upserts that failed (logged only)
  minBlockHeight, \* window the driver passes to StartIndexing
  cfgMaxHeight,   \* maxBlockHeight argument the driver passes
  pc,             \* position of the driver / StartIndexing
  pass,           \* number of the current pass
  latestHeight,   \* result of the tip resolution of this pass
  maxBlockHeight, \* StartIndexing's local maxBlockHeight
  currentHeight,  \* loop variable of StartIndexing
  semaphore,      \* slots held in the semaphore channel
  wg,             \* WaitGroup counter
  units,          \* height -> state of the worker goroutine of this pass
  visited,        \* height -> fetch pipeline invocations of this pass
  freshStart,     \* the current pass started on an empty table, no upsert pending
  calls,          \* API requests: id -> state of GetBlockDetails
  gate,           \* counting model of one StartIndexing pass (gate capacity)
  resolver        \* one call of each tip resolver: the answer and the outcome

vars == <<crashed, clock, chain, reorgs, db, rowCount, lastExec, tasks, lostWrites, minBlockHeight,
          cfgMaxHeight, pc, pass, latestHeight, maxBlockHeight, currentHeight,
          semaphore, wg, units, visited, freshStart, calls, gate, resolver>>

envVars == <<clock, chain, reorgs>>
storeVars == <<db, rowCount, lastExec, tasks, lostWrites>>
scanVars == <<pc, pass, latestHeight, maxBlockHeight, currentHeight,
              semaphore, wg, units, visited, freshStart>>
cfgVars == <<minBlockHeight, cfgMaxHeight>>

\* ------------------------------------------------------------ upstream data
\* What the chain node serves for height h while its data is at version v.
BlockIdOf(h, v) == 10 * h + v
ProposerOf(h, v) == 100 + 10 * h + v
TxsOf(h, v) == [i \in 1..((h + v) % 3) |-> "tx"]

NoTxs == [kind |-> "absent", items |-> <<>>]

\* Responses of GET /block_results?height=h.  txs_results is the list of the
\* block's transaction results (JSON null is also served for a block without
\* transactions), some other JSON value, or absent.
BlockResultsResponses(h, v) ==
  {[transport |-> FALSE, status |-> 0, json |-> FALSE, result |-> FALSE, txs |-> NoTxs]}
  \cup {[transport |-> TRUE, status |-> s, json |-> FALSE, result |-> FALSE, txs |-> NoTxs] :
          s \in {StatusOK, 500}}
  \cup {[transport |-> TRUE, status |-> s, json |-> TRUE, result |-> FALSE, txs |-> NoTxs] :
          s \in {StatusOK, 500}}
  \cup {[transport |-> TRUE, status |-> s, json |-> TRUE, result |-> TRUE, txs |-> t] :
          s \in {StatusOK, 500},
          t \in {NoTxs, [kind |-> "other", items |-> <<>>],
                 [kind |-> "list", items |-> TxsOf(h, v)]}
                \cup (IF TxsOf(h, v) = <<>>
                      THEN {[kind |-> "null", items |-> <<>>]} ELSE {})}

\* Responses of GET /block?height=h.  block_id: absent | an object without a
\* string hash | complete.  block: absent | without header | header without
\* proposer_address | complete.
BlockResponses(h, v) ==
  {[transport |-> FALSE, status |-> 0, json |-> FALSE, result |-> FALSE,
    block_id |-> "absent", block |-> "absent", hash |-> 0, proposer |-> 0]}
  \cup {[transport |-> TRUE, status |-> s, json |-> j, result |-> FALSE,
         block_id |-> "absent", block |-> "absent", hash |-> 0, proposer |-> 0] :
          s \in {StatusOK, 500}, j \in BOOLEAN}
  \cup {[transport |-> TRUE, status |-> s, json |-> TRUE, result |-> TRUE,
         block_id |-> bi, block |-> bl,
         hash |-> IF bi = "ok" THEN BlockIdOf(h, v) ELSE 0,
         proposer |-> IF bl = "ok" THEN ProposerOf(h, v) ELSE 0] :
          s \in {StatusOK, 500},
          bi \in {"absent", "nohash", "ok"},
          bl \in {"absent", "noheader", "noproposer", "ok"}}

\* The failures an upstream call of the fetch pipeline can answer with: no
\* answer at all, a non-success status, a body that is not JSON, or a body
\* without an expected field.
BlockResultsFailed(resp) ==
  \/ ~resp.transport \/ resp.status # StatusOK \/ ~resp.json \/ ~resp.result
  \/ resp.txs.kind \in {"absent", "other"}
BlockFailed(resp) ==
  \/ ~resp.transport \/ resp.status # StatusOK \/ ~resp.json \/ ~resp.result
  \/ resp.block_id # "ok" \/ resp.block # "ok"

\* Responses of GET .../blocks/latest.  height: absent | not a string |
\* a string that is not a number | a numeric string.
LatestResponses ==
  {[transport |-> FALSE, status |-> 0, json |-> FALSE, block |-> FALSE,
    header |-> FALSE, height |-> "absent", value |-> 0]}
  \cup {[transport |-> TRUE, status |-> 500, json |-> TRUE, block |-> TRUE,
         header |-> TRUE, height |-> "numeric", value |-> t] : t \in 0..(MaxCfg + 1)}
  \cup {[transport |-> TRUE, status |-> StatusOK, json |-> FALSE, block |-> FALSE,
         header |-> FALSE, height |-> "absent", value |-> 0]}
  \cup {[transport |-> TRUE, status |-> StatusOK, json |-> TRUE, block |-> b,
         header |-> b /\ hd, height |-> IF b /\ hd THEN k ELSE "absent", value |-> 0] :
          b \in BOOLEAN, hd \in BOOLEAN, k \in {"absent", "notstring", "nonnumeric"}}
  \cup {[transport |-> TRUE, status |-> StatusOK, json |-> TRUE, block |-> TRUE,
         header |-> TRUE, height |-> "numeric", value |-> t] : t \in 0..(MaxCfg + 1)}

\* ------------------------------------------------------------ BlockDetails
NullTime == [Valid |-> FALSE, Time |-> ZeroTime]

EmptyBlockDetails ==
  [Height |-> 0, BlockID |-> 0, NumTransactions |-> 0, Proposer |-> 0,
   CreatedAt |-> ZeroTime, UpdatedAt |-> ZeroTime, DeletedAt |-> NullTime,
   Details |-> ""]

\* (value, error) pairs returned by the Go functions; kind "panic" is a
\* run-time panic unwinding out of the function.
Ok(rec) == [kind |-> "ok", rec |-> rec]
Err == [kind |-> "err", rec |-> EmptyBlockDetails]
Panic == [kind |-> "panic", rec |-> EmptyBlockDetails]

\* ------------------------------------------------------------ tip resolver
\* Mutant of GetLatestBlockHeightFromREST: on a non-success status the height
\* of the body is returned along with the error.
GetLatestBlockHeightFromRESTLeaksHeight(resp) ==
  IF ~resp.transport THEN [err |-> TRUE, height |-> 0]
  ELSE IF resp.status # StatusOK THEN [err |-> TRUE, height |-> resp.value]
  ELSE IF ~resp.json THEN [err |-> TRUE, height |-> 0]
  ELSE IF ~resp.block THEN [err |-> TRUE, height |-> 0]
  ELSE IF ~resp.header THEN [err |-> TRUE, height |-> 0]
  ELSE IF resp.height \in {"absent", "notstring"} THEN [err |-> TRUE, height |-> 0]
  ELSE IF resp.height = "nonnumeric" THEN [err |-> TRUE, height |-> 0]
  ELSE [err |-> FALSE, height |-> resp.value]

\* GetLatestBlockHeightFromREST: (height, error); height is 0 on error.
GetLatestBlockHeightFromREST(resp) ==
  IF ~resp.transport THEN [err |-> TRUE, height |-> 0]
  ELSE IF resp.status # StatusOK THEN [err |-> TRUE, height |-> 0]
  ELSE IF ~resp.json THEN [err |-> TRUE, height |-> 0]
  ELSE IF ~resp.block THEN [err |-> TRUE, height |-> 0]
  ELSE IF ~resp.header THEN [err |-> TRUE, height |-> 0]
  ELSE IF resp.height \in {"absent", "notstring"} THEN [err |-> TRUE, height |-> 0]
  ELSE IF resp.height = "nonnumeric" THEN [err |-> TRUE, height |-> 0]
  ELSE [err |-> FALSE, height |-> resp.value]

\* Responses of GET /status.  result and sync_info: an object or absent;
\* latest_block_height: absent | not a string | a string that is not a
\* number | a numeric string.
StatusResponses ==
  {[transport |-> FALSE, status |-> 0, json |-> FALSE, result |-> FALSE,
    sync_info |-> FALSE, height |-> "absent", value |-> 0]}
  \cup {[transport |-> TRUE, status |-> s, json |-> FALSE, result |-> FALSE,
         sync_info |-> FALSE, height |-> "absent", value |-> 0] : s \in {StatusOK, 500}}
  \cup {[transport |-> TRUE, status |-> s, json |-> TRUE, result |-> r,
         sync_info |-> r /\ si, height |-> IF r /\ si THEN k ELSE "absent", value |-> 0] :
          s \in {StatusOK, 500}, r \in BOOLEAN, si \in BOOLEAN,
          k \in {"absent", "notstring", "nonnumeric"}}
  \cup {[transport |-> TRUE, status |-> s, json |-> TRUE, result |-> TRUE,
         sync_info |-> TRUE, height |-> "numeric", value |-> t] :
          s \in {StatusOK, 500}, t \in 0..(MaxCfg + 1)}

\* GetLatestBlockHeight: the status code is not looked at; the assertion on
\* result is single-valued and panics when the field is absent, the ones on
\* sync_info and latest_block_height are comma-ok.
GetLatestBlockHeight(resp) ==
  IF ~resp.transport THEN [kind |-> "err", height |-> 0]
  ELSE IF ~resp.json THEN [kind |-> "err", height |-> 0]
  ELSE IF ~resp.result THEN [kind |-> "panic", height |-> 0]
  ELSE IF ~resp.sync_info THEN [kind |-> "err", height |-> 0]
  ELSE IF resp.height \in {"absent", "notstring"} THEN [kind |-> "err", height |-> 0]
  ELSE IF resp.height = "nonnumeric" THEN [kind |-> "err", height |-> 0]
  ELSE [kind |-> "ok", height |-> resp.value]

\* Mutant of MergeTip: the comparison is reversed.
MergeTipLower(maxH, latest) == IF latest < maxH THEN latest ELSE maxH

\* if latestHeight > maxBlockHeight { maxBlockHeight = latestHeight }
MergeTip(maxH, latest) == IF latest > maxH THEN latest ELSE maxH

\* ----------------------------------------------------------- fetch pipeline
\* getBlock: block id and proposer of the /block response.  The assertions
\* on block_id, block and header are single-valued and panic when the field
\* is absent; the ones on hash and proposer_address are comma-ok.
getBlock(resp) ==
  IF ~resp.transport THEN Err
  ELSE IF ~resp.json THEN Err
  ELSE IF ~resp.result THEN Err
  ELSE IF resp.block_id = "absent" THEN Panic
  ELSE IF resp.block_id = "nohash" THEN Err
  ELSE IF resp.block \in {"absent", "noheader"} THEN Panic
  ELSE IF resp.block = "noproposer" THEN Err
  ELSE Ok([EmptyBlockDetails EXCEPT !.BlockID = resp.hash, !.Proposer = resp.proposer])

\* getBlockResults up to its call of getBlock: the request, the decoding and
\* the check of the result field.  go: the function goes on, holding the
\* txs_results entry of the decoded result.
getBlockResultsHead(resp) ==
  IF ~resp.transport THEN [go |-> FALSE, txs |-> NoTxs]
  ELSE IF ~resp.json THEN [go |-> FALSE, txs |-> NoTxs]
  ELSE IF ~resp.result THEN [go |-> FALSE, txs |-> NoTxs]
  ELSE [go |-> TRUE, txs |-> resp.txs]

\* Mutant of getBlockResultsTail: the record is built on the one getBlock
\* returned, whose Height was never set.
getBlockResultsTailNoHeight(height, txs, blockData) ==
  IF blockData.kind = "panic" THEN Panic
  ELSE IF blockData.kind = "err" THEN Err
  ELSE IF txs.kind = "absent" THEN Err
  ELSE IF txs.kind = "other" THEN Err
  ELSE Ok([blockData.rec EXCEPT
             !.NumTransactions = IF txs.kind = "list" THEN Len(txs.items) ELSE 0])

\* getBlockResults from the return of getBlock on.
getBlockResultsTail(height, txs, blockData) ==
  IF blockData.kind = "panic" THEN Panic
  ELSE IF blockData.kind = "err" THEN Err
  ELSE IF txs.kind = "absent" THEN Err
  ELSE IF txs.kind = "other" THEN Err
  ELSE Ok([EmptyBlockDetails EXCEPT
             !.Height = height,
             !.BlockID = blockData.rec.BlockID,
             !.Proposer = blockData.rec.Proposer,
             !.NumTransactions = IF txs.kind = "list" THEN Len(txs.items) ELSE 0])

\* json.Marshal(blockDetails.Details): a nil RawMessage encodes as null.
MarshalDetails(details) == IF details = "" THEN "null" ELSE details

\* Mutant of PersistTask: the statement's arguments for block_id and
\* proposer_address are exchanged.
PersistTaskSwapped(height, rec, by) ==
  [height |-> height, BlockID |-> rec.Proposer, Proposer |-> rec.BlockID,
   NumTransactions |-> rec.NumTransactions, Details |-> rec.Details,
   by |-> by, stage |-> "spawned", detailsJSON |-> "", currentTime |-> ZeroTime]

\* Mutant of PersistTask: the statement is keyed by another height.
PersistTaskOtherHeight(height, rec, by) ==
  [height |-> IF height = 1 THEN 2 ELSE 1, BlockID |-> rec.BlockID,
   Proposer |-> rec.Proposer, NumTransactions |-> rec.NumTransactions,
   Details |-> rec.Details, by |-> by, stage |-> "spawned", detailsJSON |-> "",
   currentTime |-> ZeroTime]

\* The goroutine FetchAndStoreBlockDetails spawns for a composed record.
PersistTask(height, rec, by) ==
  [height |-> height, BlockID |-> rec.BlockID, Proposer |-> rec.Proposer,
   NumTransactions |-> rec.NumTransactions, Details |-> rec.Details,
   by |-> by, stage |-> "spawned", detailsJSON |-> "", currentTime |-> ZeroTime]

\* Mutant of FetchAndStoreBlockDetails: the record is returned without the
\* goroutine being started.
FetchAndStoreNeverSpawns(height, res, by) == [ret |-> res, spawned |-> EmptyBag]

\* Mutant of FetchAndStoreBlockDetails: the goroutine is started before the
\* error of getBlockResults is looked at.
FetchAndStoreAlwaysSpawns(height, res, by) ==
  [ret |-> res, spawned |-> SetToBag({PersistTask(height, res.rec, by)})]

\* FetchAndStoreBlockDetails, given what getBlockResults returned: the value
\* returned and the bag of goroutines spawned.
FetchAndStoreBlockDetails(height, res, by) ==
  IF res.kind = "ok"
  THEN [ret |-> res, spawned |-> SetToBag({PersistTask(height, res.rec, by)})]
  ELSE [ret |-> res, spawned |-> EmptyBag]

\* ------------------------------------------------------------ blocks table
NoRow ==
  [present |-> FALSE, block_id |-> 0, proposer_address |-> 0, num_transactions |-> 0,
   details |-> "", created_at |-> ZeroTime, updated_at |-> ZeroTime,
   deleted_at |-> NullTime]

\* Mutant of Upsert: the insert stamps deleted_at like the other timestamps.
UpsertStampsDeleted(row, t) ==
  IF ~row.present
  THEN [present |-> TRUE, block_id |-> t.BlockID, proposer_address |-> t.Proposer,
        num_transactions |-> t.NumTransactions, details |-> t.detailsJSON,
        created_at |-> t.currentTime, updated_at |-> t.currentTime,
        deleted_at |-> [Valid |-> TRUE, Time |-> t.currentTime]]
  ELSE [row EXCEPT !.block_id = t.BlockID, !.proposer_address = t.Proposer,
                   !.num_transactions = t.NumTransactions,
                   !.details = t.detailsJSON, !.updated_at = t.currentTime]

\* Mutant of Upsert: DO UPDATE also sets created_at = EXCLUDED.created_at.
UpsertResetsCreated(row, t) ==
  [present |-> TRUE, block_id |-> t.BlockID, proposer_address |-> t.Proposer,
   num_transactions |-> t.NumTransactions, details |-> t.detailsJSON,
   created_at |-> t.currentTime, updated_at |-> t.currentTime,
   deleted_at |-> IF row.present THEN row.deleted_at ELSE NullTime]

\* Mutant of Upsert: ON CONFLICT DO NOTHING.
UpsertKeepsOldRow(row, t) ==
  IF ~row.present
  THEN [present |-> TRUE, block_id |-> t.BlockID, proposer_address |-> t.Proposer,
        num_transactions |-> t.NumTransactions, details |-> t.detailsJSON,
        created_at |-> t.currentTime, updated_at |-> t.currentTime,
        deleted_at |-> NullTime]
  ELSE row

\* Mutant of Upsert: on conflict the old row is deleted and not replaced.
UpsertDeletesOnConflict(row, t) ==
  IF ~row.present
  THEN [present |-> TRUE, block_id |-> t.BlockID, proposer_address |-> t.Proposer,
        num_transactions |-> t.NumTransactions, details |-> t.detailsJSON,
        created_at |-> t.currentTime, updated_at |-> t.currentTime,
        deleted_at |-> NullTime]
  ELSE NoRow

\* INSERT ... ON CONFLICT (block_height) DO UPDATE SET ...
Upsert(row, t) ==
  IF ~row.present
  THEN [present |-> TRUE, block_id |-> t.BlockID, proposer_address |-> t.Proposer,
        num_transactions |-> t.NumTransactions, details |-> t.detailsJSON,
        created_at |-> t.currentTime, updated_at |-> t.currentTime,
        deleted_at |-> NullTime]
  ELSE [row EXCEPT !.block_id = t.BlockID, !.proposer_address = t.Proposer,
                   !.num_transactions = t.NumTransactions,
                   !.details = t.detailsJSON, !.updated_at = t.currentTime]

\* Mutant of ScanRow: the Scan destinations of block_id and proposer_address
\* are exchanged.
ScanRowSwapped(height, row) ==
  [Height |-> height, BlockID |-> row.proposer_address,
   NumTransactions |-> row.num_transactions,
   Proposer |-> row.block_id, CreatedAt |-> row.created_at,
   UpdatedAt |-> row.updated_at, DeletedAt |-> row.deleted_at, Details |-> row.details]

\* QueryRow(...).Scan(...): the row of a height as a BlockDetails.
ScanRow(height, row) ==
  [Height |-> height, BlockID |-> row.block_id, NumTransactions |-> row.num_transactions,
   Proposer |-> row.proposer_address, CreatedAt |-> row.created_at,
   UpdatedAt |-> row.updated_at, DeletedAt |-> row.deleted_at, Details |-> row.details]

\* ------------------------------------------------------------------- state
IdleUnit == [pc |-> "none", txs |-> NoTxs, bad |-> FALSE]
IdleCall == [pc |-> "idle", height |-> 0, txs |-> NoTxs, result |-> EmptyBlockDetails,
             fetches |-> 0, upstream |-> 0, spawned |-> 0, bad |-> FALSE,
             dbfault |-> FALSE, afterFetch |-> FALSE]
IdleGate == [pc |-> "idle", currentHeight |-> 0, semaphore |-> 0, wg |-> 0,
             active |-> 0, finished |-> 0, pending |-> 0]
NoTip == [err |-> FALSE, height |-> 0]
NoExec == [ran |-> FALSE, BlockID |-> 0, Proposer |-> 0, NumTransactions |-> 0,
           currentTime |-> ZeroTime]
IdleResolver == [status |-> [pc |-> "idle"], rest |-> [pc |-> "idle"]]

Init ==
  /\ crashed = FALSE
  /\ clock = 1
  /\ chain = [h \in Heights |-> 1]
  /\ reorgs = 0
  /\ db = [h \in Heights |-> NoRow]
  /\ rowCount = [h \in Heights |-> 0]
  /\ lastExec = [h \in Heights |-> NoExec]
  /\ tasks = EmptyBag
  /\ lostWrites = FALSE
  /\ minBlockHeight \in CfgHeights
  /\ cfgMaxHeight \in CfgHeights
  /\ pc = "idle"
  /\ pass = 0
  /\ latestHeight = NoTip
  /\ maxBlockHeight = cfgMaxHeight
  /\ currentHeight = cfgMaxHeight
  /\ semaphore = 0
  /\ wg = 0
  /\ units = [h \in Heights |-> IdleUnit]
  /\ visited = [h \in Heights |-> 0]
  /\ freshStart = TRUE
  /\ calls = [c \in 1..MaxRequests |-> IdleCall]
  /\ gate = IdleGate
  /\ resolver = IdleResolver

\* ------------------------------------------------------------- environment
\* The wall clock advances.
Tick ==
  /\ ~crashed
  /\ clock < MaxClock
  /\ clock' = clock + 1
  /\ UNCHANGED <<crashed, chain, reorgs, storeVars, cfgVars, scanVars, calls, gate, resolver>>

\* The upstream node starts serving different data for height h.
Reorg(h) ==
  /\ ~crashed
  /\ reorgs < MaxReorgs
  /\ chain[h] = 1
  /\ chain' = [chain EXCEPT ![h] = 2]
  /\ reorgs' = reorgs + 1
  /\ UNCHANGED <<crashed, clock, storeVars, cfgVars, scanVars, calls, gate, resolver>>

\* ------------------------------------------------------- persistence tasks
\* The goroutine marshals the details and reads time.Now().
TaskStamp(t) ==
  /\ ~crashed
  /\ BagIn(t, tasks)
  /\ t.stage = "spawned"
  /\ tasks' = (tasks (-) SetToBag({t})) (+)
              SetToBag({[t EXCEPT !.stage = "exec",
                                  !.detailsJSON = MarshalDetails(t.Details),
                                  !.currentTime = clock]})
  /\ UNCHANGED <<crashed, envVars, db, rowCount, lastExec, lostWrites, cfgVars, scanVars, calls, gate, resolver>>

\* idx.db.ExecContext: the upsert reaches the table, or fails and is logged.
TaskExec(t) ==
  /\ ~crashed
  /\ BagIn(t, tasks)
  /\ t.stage = "exec"
  /\ tasks' = tasks (-) SetToBag({t})
  /\ \/ /\ db' = [db EXCEPT ![t.height] = Upsert(db[t.height], t)]
        /\ rowCount' = [rowCount EXCEPT ![t.height] =
                          IF db[t.height].present THEN @ ELSE @ + 1]
        /\ lastExec' = [lastExec EXCEPT ![t.height] =
                          [ran |-> TRUE, BlockID |-> t.BlockID, Proposer |-> t.Proposer,
                           NumTransactions |-> t.NumTransactions,
                           currentTime |-> t.currentTime]]
        /\ UNCHANGED lostWrites
     \/ /\ lostWrites' = TRUE
        /\ UNCHANGED <<db, rowCount, lastExec>>
  /\ UNCHANGED <<crashed, envVars, cfgVars, scanVars, calls, gate, resolver>>

\* ------------------------------------------------------ backfill scanner
\* Mutant of CanAcquire: one slot too many.
CanAcquireOffByOne(held) == held <= SemaphoreCap

\* Mutant of NextHeight: the loop steps over a height.
NextHeightSkips(cur) == cur - 2

\* Mutant of ReleaseSlot: the worker's return leaves the slot taken.
ReleaseSlotKept(held) == held

\* defer func() { <-semaphore }(): the returning worker frees its slot.
ReleaseSlot(held) == held - 1

\* semaphore <- struct{}{} goes through while the channel has room.
CanAcquire(held) == held < SemaphoreCap

\* for currentHeight := maxBlockHeight; currentHeight >= minBlockHeight; currentHeight--
LoopCond(cur, minH) == cur >= minH
NextHeight(cur) == cur - 1

\* The driver calls StartIndexing(minBlockHeight, maxBlockHeight): a fresh
\* WaitGroup and semaphore.
StartPass ==
  /\ ~crashed
  /\ pc \in {"idle", "returned"}
  /\ pass < MaxPasses
  /\ pass' = pass + 1
  /\ pc' = "resolve"
  /\ latestHeight' = NoTip
  /\ maxBlockHeight' = cfgMaxHeight
  /\ currentHeight' = cfgMaxHeight
  /\ semaphore' = 0
  /\ wg' = 0
  /\ units' = [h \in Heights |-> IdleUnit]
  /\ visited' = [h \in Heights |-> 0]
  /\ freshStart' = ((\A h \in Heights : ~db[h].present) /\ tasks = EmptyBag)
  /\ UNCHANGED <<crashed, envVars, storeVars, cfgVars, calls, gate, resolver>>

\* The tip is resolved (a failure is only logged) and merged into
\* maxBlockHeight; the loop variable is initialised.
ResolveTip ==
  /\ ~crashed
  /\ pc = "resolve"
  /\ \E r \in {GetLatestBlockHeightFromREST(resp) : resp \in LatestResponses} :
       LET m == MergeTip(maxBlockHeight, r.height)
       IN /\ latestHeight' = r
          /\ maxBlockHeight' = m
          /\ currentHeight' = m
  /\ pc' = "loop"
  /\ UNCHANGED <<crashed, envVars, storeVars, cfgVars, pass, semaphore, wg, units,
                 visited, freshStart, calls, gate, resolver>>

\* One iteration of the loop: wg.Add(1), a slot is acquired, the worker
\* goroutine starts and calls FetchAndStoreBlockDetails(currentHeight).
Launch ==
  /\ ~crashed
  /\ pc = "loop"
  /\ LoopCond(currentHeight, minBlockHeight)
  /\ CanAcquire(semaphore)
  /\ wg' = wg + 1
  /\ semaphore' = semaphore + 1
  /\ units' = [units EXCEPT ![currentHeight] = [IdleUnit EXCEPT !.pc = "res"]]
  /\ visited' = [visited EXCEPT ![currentHeight] = @ + 1]
  /\ currentHeight' = NextHeight(currentHeight)
  /\ UNCHANGED <<crashed, envVars, storeVars, cfgVars, pc, pass, latestHeight,
                 maxBlockHeight, freshStart, calls, gate, resolver>>

\* The loop condition fails: StartIndexing reaches wg.Wait().
LoopExit ==
  /\ ~crashed
  /\ pc = "loop"
  /\ ~LoopCond(currentHeight, minBlockHeight)
  /\ pc' = "wait"
  /\ UNCHANGED <<crashed, envVars, storeVars, cfgVars, pass, latestHeight,
                 maxBlockHeight, currentHeight, semaphore, wg, units, visited,
                 freshStart, calls, gate, resolver>>

\* Mutant of WaitReturns: the wait does not block.
WaitReturnsAtOnce(counter) == counter >= 0

\* wg.Wait() blocks until the WaitGroup counter is zero.
WaitReturns(counter) == counter = 0

\* wg.Wait() returns and so does StartIndexing.
WaitDone ==
  /\ ~crashed
  /\ pc = "wait"
  /\ WaitReturns(wg)
  /\ pc' = "returned"
  /\ UNCHANGED <<crashed, envVars, storeVars, cfgVars, pass, latestHeight,
                 maxBlockHeight, currentHeight, semaphore, wg, units, visited,
                 freshStart, calls, gate, resolver>>

\* The worker of height h gets the answer of /block_results.
UnitResults(h) ==
  /\ ~crashed
  /\ units[h].pc = "res"
  /\ \E a \in {[r |-> getBlockResultsHead(resp), bad |-> BlockResultsFailed(resp)] :
                 resp \in BlockResultsResponses(h, chain[h])} :
       IF a.r.go
       THEN /\ units' = [units EXCEPT ![h] = [pc |-> "blk", txs |-> a.r.txs, bad |-> a.bad]]
            /\ UNCHANGED <<semaphore, wg>>
       ELSE \* error logged; deferred release of the slot and wg.Done()
            /\ units' = [units EXCEPT ![h] = [pc |-> "err", txs |-> NoTxs, bad |-> a.bad]]
            /\ semaphore' = ReleaseSlot(semaphore)
            /\ wg' = wg - 1
  /\ UNCHANGED <<crashed, envVars, storeVars, cfgVars, pc, pass, latestHeight,
                 maxBlockHeight, currentHeight, visited, freshStart, calls, gate, resolver>>

\* The worker of height h gets the answer of /block; the pipeline returns
\* (spawning the persistence goroutine on success) and the worker ends.  A
\* panic runs the deferred calls and then terminates the process.
UnitBlock(h) ==
  /\ ~crashed
  /\ units[h].pc = "blk"
  /\ \E a \in {[f |-> FetchAndStoreBlockDetails(h,
                           getBlockResultsTail(h, units[h].txs, getBlock(resp)), "scan"),
                   bad |-> BlockFailed(resp)] :
                 resp \in BlockResponses(h, chain[h])} :
          /\ units' = [units EXCEPT ![h] = [pc |-> a.f.ret.kind, txs |-> NoTxs,
                                            bad |-> units[h].bad \/ a.bad]]
          /\ tasks' = tasks (+) a.f.spawned
          /\ crashed' = (a.f.ret.kind = "panic")
  /\ semaphore' = ReleaseSlot(semaphore)
  /\ wg' = wg - 1
  /\ UNCHANGED <<envVars, db, rowCount, lastExec, lostWrites, cfgVars, pc, pass, latestHeight,
                 maxBlockHeight, currentHeight, visited, freshStart, calls, gate, resolver>>

\* ------------------------------------------------------ cache-aside accessor
\* Mutant of Lookup: any failure of the query is taken for sql.ErrNoRows.
LookupFaultAsMiss(table, height, fault) ==
  IF table[height].present /\ ~fault
  THEN [kind |-> "found", rec |-> ScanRow(height, table[height])]
  ELSE [kind |-> "notfound", rec |-> EmptyBlockDetails]

\* The SELECT of GetBlockDetails: the row, sql.ErrNoRows, or another error.
Lookup(table, height, fault) ==
  IF fault THEN [kind |-> "error", rec |-> EmptyBlockDetails]
  ELSE IF table[height].present
       THEN [kind |-> "found", rec |-> ScanRow(height, table[height])]
       ELSE [kind |-> "notfound", rec |-> EmptyBlockDetails]

\* Requests are numbered in the order they arrive.
Arrived(c) == IF c = 1 THEN TRUE ELSE calls[c - 1].pc # "idle"

\* Another request for height h has already been handed its fetched record.
FetchReturned(c, h) ==
  \E d \in 1..MaxRequests : d # c /\ calls[d].pc = "fetched" /\ calls[d].height = h

\* GetBlockDetails(h) is called and runs its query.
AccLookup(c, h) ==
  /\ ~crashed
  /\ calls[c].pc = "idle"
  /\ Arrived(c)
  /\ \E fault \in BOOLEAN :
       LET r == Lookup(db, h, fault)
       IN calls' = [calls EXCEPT ![c] =
            IF r.kind = "found"
            THEN [@ EXCEPT !.pc = "hit", !.height = h, !.result = r.rec,
                           !.dbfault = fault, !.afterFetch = FetchReturned(c, h)]
            ELSE IF r.kind = "notfound"
            THEN [@ EXCEPT !.pc = "res", !.height = h, !.fetches = @ + 1,
                           !.dbfault = fault, !.afterFetch = FetchReturned(c, h)]
            ELSE [@ EXCEPT !.pc = "dberr", !.height = h, !.dbfault = fault,
                           !.afterFetch = FetchReturned(c, h)]]
  /\ UNCHANGED <<crashed, envVars, storeVars, cfgVars, scanVars, gate, resolver>>

\* The fetch of a missed request gets the answer of /block_results.
AccResults(c) ==
  /\ ~crashed
  /\ calls[c].pc = "res"
  /\ \E a \in {[r |-> getBlockResultsHead(resp), bad |-> BlockResultsFailed(resp)] :
                 resp \in BlockResultsResponses(calls[c].height, chain[calls[c].height])} :
       calls' = [calls EXCEPT ![c] =
         IF a.r.go
         THEN [@ EXCEPT !.pc = "blk", !.txs = a.r.txs, !.upstream = @ + 1, !.bad = a.bad]
         ELSE [@ EXCEPT !.pc = "fetcherr", !.upstream = @ + 1, !.bad = a.bad]]
  /\ UNCHANGED <<crashed, envVars, storeVars, cfgVars, scanVars, gate, resolver>>

\* The fetch of a missed request gets the answer of /block and
\* GetBlockDetails returns; a panic is recovered by the HTTP server.
AccBlock(c) ==
  /\ ~crashed
  /\ calls[c].pc = "blk"
  /\ \E a \in {[f |-> FetchAndStoreBlockDetails(calls[c].height,
                           getBlockResultsTail(calls[c].height, calls[c].txs,
                                               getBlock(resp)), "api"),
                   bad |-> BlockFailed(resp)] :
                 resp \in BlockResponses(calls[c].height, chain[calls[c].height])} :
          /\ calls' = [calls EXCEPT ![c] =
               [@ EXCEPT !.pc = IF a.f.ret.kind = "ok" THEN "fetched"
                                ELSE IF a.f.ret.kind = "err" THEN "fetcherr"
                                ELSE "panic",
                         !.txs = NoTxs,
                         !.result = a.f.ret.rec,
                         !.upstream = @ + 1,
                         !.spawned = @ + BagCardinality(a.f.spawned),
                         !.bad = @ \/ a.bad]]
          /\ tasks' = tasks (+) a.f.spawned
  /\ UNCHANGED <<crashed, envVars, db, rowCount, lastExec, lostWrites, cfgVars, scanVars, gate, resolver>>

\* --------------------------------------------------------------- main model
Next ==
  \/ Tick
  \/ \E h \in Heights : Reorg(h)
  \/ \E t \in BagToSet(tasks) : TaskStamp(t)
  \/ \E t \in BagToSet(tasks) : TaskExec(t)
  \/ StartPass
  \/ ResolveTip
  \/ Launch
  \/ LoopExit
  \/ WaitDone
  \/ \E h \in Heights : UnitResults(h)
  \/ \E h \in Heights : UnitBlock(h)
  \/ \E c \in 1..MaxCalls, h \in Heights : AccLookup(c, h)
  \/ \E c \in 1..MaxCalls : AccResults(c)
  \/ \E c \in 1..MaxCalls : AccBlock(c)

Spec == Init /\ [][Next]_vars

\* ----------------------------------------------------- accessor-only model
\* API requests, their persistence goroutines and the environment, with no
\* backfill running.
NextApi ==
  \/ Tick
  \/ \E h \in Heights : Reorg(h)
  \/ \E t \in BagToSet(tasks) : TaskStamp(t)
  \/ \E t \in BagToSet(tasks) : TaskExec(t)
  \/ \E c \in 1..MaxRequests, h \in Heights : AccLookup(c, h)
  \/ \E c \in 1..MaxRequests : AccResults(c)
  \/ \E c \in 1..MaxRequests : AccBlock(c)

SpecApi == Init /\ [][NextApi]_vars

\* ------------------------------------------------------------- gate model
\* One pass of StartIndexing over more heights than the semaphore has slots.
\* The workers are counted, not told apart: gate.active goroutines have been
\* started and have not returned from FetchAndStoreBlockDetails.
GateMax == SemaphoreCap + GateExtra

GateStart ==
  /\ gate.pc = "idle"
  /\ \E r \in {GetLatestBlockHeightFromREST(resp) : resp \in LatestResponses} :
       gate' = [gate EXCEPT !.pc = "loop",
                            !.currentHeight = MergeTip(GateMax, r.height)]
  /\ UNCHANGED <<crashed, envVars, storeVars, cfgVars, scanVars, calls, resolver>>

GateLaunch ==
  /\ gate.pc = "loop"
  /\ LoopCond(gate.currentHeight, 1)
  /\ CanAcquire(gate.semaphore)
  /\ gate' = [gate EXCEPT !.wg = @ + 1, !.semaphore = @ + 1, !.active = @ + 1,
                          !.currentHeight = NextHeight(@)]
  /\ UNCHANGED <<crashed, envVars, storeVars, cfgVars, scanVars, calls, resolver>>

\* The number of persistence goroutines a worker's FetchAndStoreBlockDetails
\* leaves behind when getBlockResults returned res.
GateSpawned(res) == BagCardinality(FetchAndStoreBlockDetails(0, res, "scan").spawned)

\* A worker's FetchAndStoreBlockDetails returns (a record, having started the
\* persistence goroutine, or an error); the deferred calls release the slot
\* and signal the WaitGroup.
GateFinish ==
  /\ gate.active > 0
  /\ \E n \in {GateSpawned(res) : res \in {Ok(EmptyBlockDetails), Err}} :
       gate' = [gate EXCEPT !.wg = @ - 1, !.semaphore = ReleaseSlot(@),
                            !.active = @ - 1, !.finished = @ + 1,
                            !.pending = @ + n]
  /\ UNCHANGED <<crashed, envVars, storeVars, cfgVars, scanVars, calls, resolver>>

\* A persistence goroutine ends: its upsert ran, or failed and was logged.
GateTaskDone ==
  /\ gate.pending > 0
  /\ gate' = [gate EXCEPT !.pending = @ - 1]
  /\ UNCHANGED <<crashed, envVars, storeVars, cfgVars, scanVars, calls, resolver>>

GateLoopExit ==
  /\ gate.pc = "loop"
  /\ ~LoopCond(gate.currentHeight, 1)
  /\ gate' = [gate EXCEPT !.pc = "wait"]
  /\ UNCHANGED <<crashed, envVars, storeVars, cfgVars, scanVars, calls, resolver>>

GateWaitDone ==
  /\ gate.pc = "wait"
  /\ WaitReturns(gate.wg)
  /\ gate' = [gate EXCEPT !.pc = "returned"]
  /\ UNCHANGED <<crashed, envVars, storeVars, cfgVars, scanVars, calls, resolver>>

NextGate ==
  GateStart \/ GateLaunch \/ GateFinish \/ GateTaskDone \/ GateLoopExit \/ GateWaitDone

SpecGate == Init /\ [][NextGate]_vars

\* ----------------------------------------------------------- resolver model
\* A caller invokes each of the two tip resolvers once, on any answer of its
\* endpoint.
StatusResolved ==
  /\ resolver.status.pc = "idle"
  /\ \E resp \in StatusResponses :
       resolver' = [resolver EXCEPT !.status =
                      [pc |-> "done", resp |-> resp, out |-> GetLatestBlockHeight(resp)]]
  /\ UNCHANGED <<crashed, envVars, storeVars, cfgVars, scanVars, calls, gate>>

RESTResolved ==
  /\ resolver.rest.pc = "idle"
  /\ \E resp \in LatestResponses :
       resolver' = [resolver EXCEPT !.rest =
                      [pc |-> "done", resp |-> resp,
                       out |-> GetLatestBlockHeightFromREST(resp)]]
  /\ UNCHANGED <<crashed, envVars, storeVars, cfgVars, scanVars, calls, gate>>

NextResolver == StatusResolved \/ RESTResolved

SpecResolver == Init /\ [][NextResolver]_vars

\* ================================================================== claims
MaxOf(a, b) == IF a >= b THEN a ELSE b
Versions == 1..(MaxReorgs + 1)
ScanRange == minBlockHeight..maxBlockHeight
UnitActive(h) == units[h].pc \in {"res", "blk"}
UnitFailed(h) == units[h].pc \in {"err", "panic"}
CallMissed(c) == calls[c].pc \in {"res", "blk", "fetched", "fetcherr", "panic"}

\* C1: during a pass the number of workers that have been started and have
\* not yet finished their FetchAndStoreBlockDetails call never exceeds 100,
\* and neither does the number of slots held.
C1_AtMostCapActive ==
  /\ gate.active <= 100
  /\ gate.semaphore <= 100

\* C1 witness: all 100 slots are taken while the loop still has a height to
\* start, so that height waits for a slot.
C1_GateFullWitness ==
  /\ gate.active = 100
  /\ gate.pc = "loop"
  /\ gate.currentHeight >= 1

\* C2: within one pass no height is fetched twice, none outside
\* [minBlockHeight, effective upper bound] is fetched, and when the pass has
\* returned every height of that range has been fetched exactly once.
C2_EachHeightOnce ==
  /\ \A h \in Heights : visited[h] <= 1
  /\ \A h \in Heights : visited[h] > 0 => h \in ScanRange
  /\ pc \in {"wait", "returned"} => \A h \in ScanRange : visited[h] = 1

\* C2 witness: a pass over two heights has returned.
C2_PassReturnedWitness ==
  /\ pc = "returned"
  /\ maxBlockHeight > minBlockHeight
  /\ \A h \in ScanRange : visited[h] = 1

\* C3: once the tip T has been resolved, the bound the pass scans down from
\* is max(C, T) for the ceiling C it was called with: the loop starts there
\* and the first height fetched is that one.
C3_TipMergeLaw ==
  (pc \in {"loop", "wait", "returned"} /\ ~latestHeight.err) =>
     /\ maxBlockHeight = MaxOf(cfgMaxHeight, latestHeight.height)
     /\ (\A h \in Heights : visited[h] = 0) =>
           currentHeight = MaxOf(cfgMaxHeight, latestHeight.height)
     /\ (\E h \in Heights : visited[h] > 0) =>
           visited[MaxOf(cfgMaxHeight, latestHeight.height)] = 1

\* C3 witness: the resolved tip is above the ceiling and the scan has started
\* at the tip.
C3_TipAboveWitness ==
  /\ pc = "loop"
  /\ ~latestHeight.err
  /\ latestHeight.height > cfgMaxHeight
  /\ visited[latestHeight.height] = 1

\* C4: a GetBlockDetails call whose lookup finds the row of its height
\* returns that row, field by field, makes no upstream call, invokes no fetch
\* and spawns no upsert; having returned it does nothing more.  (A lookup that
\* fails with a storage error is the case of C12.)
C4_HitReturnsStoredRow ==
  [][\A c \in 1..MaxRequests :
       /\ (calls[c].pc = "idle" /\ calls'[c].pc \notin {"idle", "dberr"}
           /\ db[calls'[c].height].present) =>
             /\ calls'[c].pc = "hit"
             /\ calls'[c].result.Height = calls'[c].height
             /\ calls'[c].result.BlockID = db[calls'[c].height].block_id
             /\ calls'[c].result.Proposer = db[calls'[c].height].proposer_address
             /\ calls'[c].result.NumTransactions = db[calls'[c].height].num_transactions
             /\ calls'[c].result.CreatedAt = db[calls'[c].height].created_at
             /\ calls'[c].result.UpdatedAt = db[calls'[c].height].updated_at
             /\ calls'[c].result.DeletedAt = db[calls'[c].height].deleted_at
             /\ calls'[c].result.Details = db[calls'[c].height].details
             /\ calls'[c].upstream = 0 /\ calls'[c].fetches = 0
             /\ tasks' = tasks /\ db' = db
       /\ calls[c].pc = "hit" => calls'[c] = calls[c]
    ]_vars

\* C4 witness: a request has been answered from a stored row.
C4_HitWitness ==
  \E c \in 1..MaxRequests :
    /\ calls[c].pc = "hit"
    /\ calls[c].result.BlockID # 0
    /\ calls[c].upstream = 0

\* C5 as stated: every GetBlockDetails call whose lookup was a miss ends with
\* exactly one fetch invocation and returns a record of the requested height.
C5_MissReturnsRecord ==
  \A c \in 1..MaxRequests :
    calls[c].pc \in {"fetched", "fetcherr", "panic"} =>
      /\ calls[c].fetches = 1
      /\ calls[c].pc = "fetched"
      /\ calls[c].result.Height = calls[c].height

\* C5 amended: a call whose lookup was a miss makes exactly one fetch
\* invocation (at most the two upstream calls of one invocation, at most one
\* upsert); when that invocation returns a record the call returns it, and its
\* height is the requested one and its data the upstream's; when it returns an
\* error the call returns an error and no record.
C5_MissFetchesOnce ==
  \A c \in 1..MaxRequests :
    /\ CallMissed(c) => calls[c].fetches = 1 /\ calls[c].upstream <= 2
                        /\ calls[c].spawned <= 1
    /\ calls[c].pc = "fetched" =>
         /\ calls[c].result.Height = calls[c].height
         /\ calls[c].upstream = 2
         /\ calls[c].spawned = 1
         /\ \E v \in Versions : calls[c].result.BlockID = BlockIdOf(calls[c].height, v)
         /\ \E v \in Versions : calls[c].result.Proposer = ProposerOf(calls[c].height, v)
         /\ \E v \in Versions :
              calls[c].result.NumTransactions = Len(TxsOf(calls[c].height, v))
    /\ calls[c].pc = "fetcherr" =>
         calls[c].result = EmptyBlockDetails /\ calls[c].spawned = 0

\* C5 witness: a missed request has returned the fetched record.
C5_MissFetchedWitness ==
  \E c \in 1..MaxRequests :
    /\ calls[c].pc = "fetched"
    /\ calls[c].fetches = 1
    /\ calls[c].result.Height = calls[c].height

\* C6 as stated: every fetch pipeline invocation one of whose upstream calls
\* failed (no answer, non-success status, malformed JSON, missing field) has
\* ended by returning an error and an empty record, and no invocation ends in
\* anything but a record or an error.
C6_UpstreamFailureYieldsError ==
  /\ \A h \in Heights :
       /\ units[h].pc # "panic"
       /\ (units[h].pc \in {"ok", "err"} /\ units[h].bad) => units[h].pc = "err"
  /\ \A c \in 1..MaxRequests :
       /\ calls[c].pc # "panic"
       /\ (calls[c].pc \in {"fetched", "fetcherr"} /\ calls[c].bad) =>
            calls[c].pc = "fetcherr" /\ calls[c].result = EmptyBlockDetails

\* C7: a step in which a fetch pipeline invocation fails (returns an error or
\* panics) spawns no persistence task and changes no row.
C7_FailedFetchWritesNothing ==
  [][(\/ \E h \in Heights : UnitActive(h) /\ units'[h].pc \in {"err", "panic"}
      \/ \E c \in 1..MaxRequests :
           calls[c].pc \in {"res", "blk"} /\ calls'[c].pc \in {"fetcherr", "panic"})
     => (tasks' = tasks /\ db' = db)]_vars

\* C7 witness: a fetch for a height without a row has failed at its second
\* upstream call, nothing is pending and the height still has no row.
C7_FailedFetchWitness ==
  \E c \in 1..MaxRequests :
    /\ calls[c].pc = "fetcherr"
    /\ calls[c].upstream = 2
    /\ tasks = EmptyBag
    /\ ~db[calls[c].height].present

\* A pass that started on an empty table with no upsert pending has returned,
\* every upstream call of it succeeded, the upstream data did not change and
\* nothing else fetched.
C8_CleanPassReturned ==
  /\ pc = "returned"
  /\ freshStart
  /\ \A h \in ScanRange : units[h].pc = "ok" /\ ~units[h].bad
  /\ reorgs = 0
  /\ \A c \in 1..MaxRequests : calls[c].pc = "idle"

\* Exactly the heights of the scanned range have a row, each with the
\* upstream data of its height and no soft-delete timestamp.
C8_RowsOfRange ==
  \A h \in Heights :
    IF h \in ScanRange
    THEN /\ db[h].present
         /\ db[h].block_id = BlockIdOf(h, 1)
         /\ db[h].proposer_address = ProposerOf(h, 1)
         /\ db[h].num_transactions = Len(TxsOf(h, 1))
         /\ db[h].deleted_at = [Valid |-> FALSE, Time |-> 0]
    ELSE ~db[h].present

\* C8 as stated: when such a pass has returned and the tip was not above the
\* ceiling, the table holds exactly the rows of [minBlockHeight, ceiling].
C8_ReturnedPassFilledTable ==
  (C8_CleanPassReturned /\ ~latestHeight.err /\ latestHeight.height <= cfgMaxHeight)
    => C8_RowsOfRange

\* C8 amended: ... and every persistence goroutine the pass spawned has run
\* its upsert without error; then the table holds exactly the rows of the
\* scanned range ([minBlockHeight, ceiling] when the tip is not above it).
C8_WrittenPassFilledTable ==
  (C8_CleanPassReturned /\ tasks = EmptyBag /\ ~lostWrites) => C8_RowsOfRange

\* C8 witness: a clean pass over two heights has returned and both upserts
\* have run.
C8_TableFilledWitness ==
  /\ C8_CleanPassReturned
  /\ tasks = EmptyBag /\ ~lostWrites
  /\ maxBlockHeight > minBlockHeight
  /\ \A h \in ScanRange : db[h].present

\* C9 as stated: with unchanged upstream data, from one table state to the
\* next a row stays, keeps its created timestamp and its updated timestamp
\* does not decrease.
C9_TimestampsMonotone ==
  [][reorgs' = 0 =>
       \A h \in Heights :
         db[h].present =>
           /\ db'[h].present
           /\ db'[h].created_at = db[h].created_at
           /\ db'[h].updated_at >= db[h].updated_at]_vars

\* C10 as stated: a failed fetch of one height leaves the sweep running: the
\* process is alive and the failed worker's slot is free again.
C10_FailureDoesNotAbort ==
  \A h \in Heights :
    UnitFailed(h) =>
      /\ ~crashed
      /\ semaphore = Cardinality({k \in Heights : UnitActive(k)})

\* C11: in every state in which StartIndexing has returned, no worker of the
\* pass is still inside its fetch, every height of the range has a worker
\* that ended, the WaitGroup counter is zero and no semaphore slot is held.
C11_ReturnsAfterAllUnits ==
  pc = "returned" =>
    /\ \A h \in Heights : ~UnitActive(h)
    /\ \A h \in ScanRange : units[h].pc \in {"ok", "err"}
    /\ wg = 0
    /\ semaphore = 0

\* C11 witness: a pass over two heights has returned, one worker having
\* ended with a record and the other with an error.
C11_ReturnedWitness ==
  /\ pc = "returned"
  /\ maxBlockHeight > minBlockHeight
  /\ \E h \in ScanRange : units[h].pc = "ok"
  /\ \E h \in ScanRange : units[h].pc = "err"

\* C12: a GetBlockDetails call whose query failed with an error other than
\* not-found has returned an error and no record, has invoked no fetch, made
\* no upstream call and spawned no upsert; the step in which the query fails
\* changes neither the pending upserts nor the table, and the call does
\* nothing afterwards.
C12_LookupErrorSurfaced ==
  [][\A c \in 1..MaxRequests :
       /\ calls'[c].dbfault =>
            /\ calls'[c].pc = "dberr"
            /\ calls'[c].result = EmptyBlockDetails
            /\ calls'[c].fetches = 0
            /\ calls'[c].upstream = 0
            /\ calls'[c].spawned = 0
       /\ (~calls[c].dbfault /\ calls'[c].dbfault) => (tasks' = tasks /\ db' = db)
       /\ calls[c].pc = "dberr" => calls'[c] = calls[c]
    ]_vars

\* C12 witness: the query of a request for a height without a row has failed
\* with a storage error; nothing was fetched and no upsert is pending.
C12_LookupErrorWitness ==
  \E c \in 1..MaxRequests :
    /\ calls[c].dbfault
    /\ calls[c].pc = "dberr"
    /\ ~db[calls[c].height].present
    /\ tasks = EmptyBag

\* C13: the step in which a missed request is handed its fetched record
\* leaves the table as it is and only adds the persistence goroutine of that
\* record to the pending ones; a query for the same height that runs after
\* that return, while the height has no row, observes not-found; and a
\* request that has its record is not touched by the later run, failure or
\* absence of the upsert.
C13_RecordReturnedBeforeUpsert ==
  [][\A c \in 1..MaxRequests :
       /\ (calls[c].pc = "blk" /\ calls'[c].pc = "fetched") =>
            /\ db' = db
            /\ tasks' = tasks (+) SetToBag({PersistTask(calls'[c].height,
                                                        calls'[c].result, "api")})
       /\ (calls[c].pc = "idle" /\ calls'[c].pc # "idle" /\ calls'[c].afterFetch
           /\ ~calls'[c].dbfault /\ ~db[calls'[c].height].present) =>
            calls'[c].pc = "res"
       /\ calls[c].pc = "fetched" => calls'[c] = calls[c]
    ]_vars

\* C13 witness: a request for a height without a row has been handed its
\* fetched record, its upsert has not run, and a second request for the same
\* height, whose query ran after that return, has observed not-found.
C13_RaceWindowWitness ==
  \E c, d \in 1..MaxRequests :
    /\ c # d
    /\ calls[c].pc = "fetched"
    /\ calls[c].result.Height = calls[c].height
    /\ calls[d].height = calls[c].height
    /\ calls[d].afterFetch
    /\ calls[d].pc = "res"
    /\ ~db[calls[c].height].present
    /\ BagIn(PersistTask(calls[c].height, calls[c].result, "api"), tasks)

\* C14: in every step, under any interleaving of the pass, the requests and
\* the upserts, no key has had more than one row inserted, a height has a row
\* exactly when one was inserted under its key, and a height that has a row
\* still has it afterwards.
C14_OneRowPerHeightNeverRemoved ==
  [][\A h \in Heights :
       /\ rowCount'[h] <= 1
       /\ db'[h].present <=> rowCount'[h] = 1
       /\ db[h].present => db'[h].present
    ]_vars

\* C14 witness: a second upsert for a height has run on the row the first
\* one inserted, and there is still one row.
C14_UpsertedTwiceWitness ==
  \E h \in Heights :
    /\ db[h].present
    /\ rowCount[h] = 1
    /\ db[h].updated_at > db[h].created_at

\* The failures the claim names, for an answer of /status and of
\* /blocks/latest: no answer, a non-success status, a body that is not JSON,
\* an expected nested field absent.
StatusAnswerFailed(resp) ==
  \/ ~resp.transport \/ resp.status # StatusOK \/ ~resp.json
  \/ ~resp.result \/ ~resp.sync_info \/ resp.height = "absent"
LatestAnswerFailed(resp) ==
  \/ ~resp.transport \/ resp.status # StatusOK \/ ~resp.json
  \/ ~resp.block \/ ~resp.header \/ resp.height = "absent"

\* The REST-based half of C15: on a failed answer GetLatestBlockHeightFromREST
\* has returned an error and height 0.
C15_RESTFailureYieldsError ==
  (resolver.rest.pc = "done" /\ LatestAnswerFailed(resolver.rest.resp)) =>
     (resolver.rest.out.err /\ resolver.rest.out.height = 0)

\* C15 as stated: on a failed answer each of the two resolvers has returned
\* an error and no height, and neither ever ends otherwise than by returning.
C15_ResolverFailureYieldsError ==
  /\ C15_RESTFailureYieldsError
  /\ resolver.status.pc = "done" =>
       /\ resolver.status.out.kind # "panic"
       /\ StatusAnswerFailed(resolver.status.resp) =>
            (resolver.status.out.kind = "err" /\ resolver.status.out.height = 0)

\* The row of height h carries the block id, proposer and transaction count
\* of a record some request for h was handed by its fetch.
RowIsAFetchedRecord(h) ==
  \E e \in 1..MaxRequests :
    /\ calls[e].pc = "fetched"
    /\ calls[e].height = h
    /\ db[h].block_id = calls[e].result.BlockID
    /\ db[h].proposer_address = calls[e].result.Proposer
    /\ db[h].num_transactions = calls[e].result.NumTransactions

\* C16: two requests for one height that both observed not-found each make
\* their own fetch invocation; when both have been handed a record each has
\* made its own two upstream calls and spawned its own upsert; and once every
\* spawned upsert has run without error, whatever the order, the height has
\* exactly one row and it carries the data of a fetched record.
C16_ConcurrentMissesStayCorrect ==
  \A c, d \in 1..MaxRequests :
    (c # d /\ calls[c].height = calls[d].height /\ CallMissed(c) /\ CallMissed(d)) =>
      /\ calls[c].fetches = 1 /\ calls[d].fetches = 1
      /\ (calls[c].pc = "fetched" /\ calls[d].pc = "fetched") =>
           /\ calls[c].upstream = 2 /\ calls[d].upstream = 2
           /\ calls[c].spawned = 1 /\ calls[d].spawned = 1
           /\ (tasks = EmptyBag /\ ~lostWrites) =>
                /\ db[calls[c].height].present
                /\ rowCount[calls[c].height] = 1
                /\ RowIsAFetchedRecord(calls[c].height)

\* C16 witness: two requests for one height both missed, neither query
\* having run after the other's return, both were handed a record, both
\* upserts have run and the height has one row.
C16_BothUpsertedWitness ==
  \E c, d \in 1..MaxRequests :
    /\ c # d
    /\ calls[c].pc = "fetched" /\ calls[d].pc = "fetched"
    /\ calls[c].height = calls[d].height
    /\ ~calls[c].afterFetch /\ ~calls[d].afterFetch
    /\ tasks = EmptyBag /\ ~lostWrites
    /\ rowCount[calls[c].height] = 1
    /\ RowIsAFetchedRecord(calls[c].height)

\* C17: the row of a height on which an upsert has run carries the block id,
\* proposer, transaction count and updated timestamp of the upsert that ran
\* last on it, whatever ran before and whenever the fetches were made.
C17_LastExecutedUpsertWins ==
  \A h \in Heights :
    lastExec[h].ran =>
      /\ db[h].present
      /\ db[h].block_id = lastExec[h].BlockID
      /\ db[h].proposer_address = lastExec[h].Proposer
      /\ db[h].num_transactions = lastExec[h].NumTransactions
      /\ db[h].updated_at = lastExec[h].currentTime

\* Two requests for height h were handed records of different upstream data,
\* both their upserts have run, and the row carries the data of version v.
C17_BothRanRowHas(h, v) ==
  \E c, d \in 1..MaxRequests :
    /\ calls[c].pc = "fetched" /\ calls[d].pc = "fetched"
    /\ calls[c].height = h /\ calls[d].height = h
    /\ calls[c].result.BlockID = BlockIdOf(h, 1)
    /\ calls[d].result.BlockID = BlockIdOf(h, 2)
    /\ tasks = EmptyBag /\ ~lostWrites
    /\ rowCount[h] = 1
    /\ db[h].block_id = BlockIdOf(h, v)
    /\ db[h].proposer_address = ProposerOf(h, v)
    /\ db[h].num_transactions = Len(TxsOf(h, v))

\* C17 witness: the upsert of the older data ran last and the row carries
\* the older data, though the newer data was fetched too.
C17_StaleLastWitness == \E h \in Heights : C17_BothRanRowHas(h, 1)

\* The other order: the upsert of the newer data ran last.
C17_FreshLastReached == \E h \in Heights : C17_BothRanRowHas(h, 2)

\* C18: the semaphore and the WaitGroup count the fetch workers only: slots
\* held and WaitGroup counter equal the number of active workers whatever the
\* number of pending persistence goroutines, which is bounded by the number
\* of workers that have finished and by nothing else; StartIndexing has
\* returned as soon as no worker is active.
C18_PersistenceOutsideGate ==
  /\ gate.semaphore = gate.active
  /\ gate.wg = gate.active
  /\ gate.pending <= gate.finished
  /\ gate.pc = "returned" => gate.active = 0

\* C18 witness: StartIndexing has returned and more persistence goroutines
\* than the semaphore has slots are still pending.
C18_PendingBeyondCapWitness ==
  /\ gate.pc = "returned"
  /\ gate.pending > SemaphoreCap

\* The same in the full model: the pass has returned and a persistence
\* goroutine one of its workers started has not run yet.
C18_ReturnedWithPendingReached ==
  /\ pc = "returned"
  /\ \E t \in BagToSet(tasks) : t.by = "scan" /\ t.stage = "spawned"

\* C19: in every step a row that exists keeps its created and soft-delete
\* timestamps; a row that comes into being has no soft-delete timestamp and
\* its created and updated timestamps are the inserting statement's; and a
\* step that changes a row runs the upsert of one pending goroutine of that
\* height and changes the row of no other height.
C19_UpsertFrame ==
  [][\A h \in Heights :
       /\ db[h].present =>
            /\ db'[h].present
            /\ db'[h].created_at = db[h].created_at
            /\ db'[h].deleted_at = db[h].deleted_at
       /\ (~db[h].present /\ db'[h].present) =>
            /\ db'[h].deleted_at = NullTime
            /\ db'[h].created_at = db'[h].updated_at
       /\ db'[h] # db[h] =>
            /\ \A k \in Heights \ {h} : db'[k] = db[k]
            /\ \E t \in BagToSet(tasks) :
                 /\ t.height = h /\ t.stage = "exec"
                 /\ tasks' = tasks (-) SetToBag({t})
                 /\ db'[h].block_id = t.BlockID
                 /\ db'[h].proposer_address = t.Proposer
                 /\ db'[h].num_transactions = t.NumTransactions
                 /\ db'[h].details = t.detailsJSON
                 /\ db'[h].updated_at = t.currentTime
    ]_vars

\* C19 witness: an upsert carrying newer upstream data and a later time has
\* run on an existing row: the row has the new data and updated timestamp,
\* its created timestamp is the older one and it has no soft-delete timestamp.
C19_RowOverwrittenWitness ==
  \E h \in Heights :
    /\ db[h].present
    /\ lastExec[h].ran
    /\ db[h].block_id = BlockIdOf(h, 2)
    /\ db[h].updated_at = lastExec[h].currentTime
    /\ db[h].created_at < db[h].updated_at
    /\ db[h].deleted_at = NullTime

\* A step of StartIndexing or of one of its workers.
ScannerStep ==
  \/ ResolveTip \/ Launch \/ LoopExit \/ WaitDone
  \/ \E h \in Heights : UnitResults(h)
  \/ \E h \in Heights : UnitBlock(h)

\* The full model with every upstream call of the pass answered in the end
\* and the goroutines of the pass scheduled fairly.
SpecFair == Init /\ [][Next]_vars /\ WF_vars(ScannerStep)

PassRunning == pc \in {"resolve", "loop", "wait"}

\* C20 as stated, first half: a pass that was started returns in the end.
C20_PassEventuallyReturns == PassRunning ~> (pc = "returned")

\* C20 as stated, first half, on finite runs: a pass that has not returned
\* can take a further step (of StartIndexing or of a worker), so that under
\* fair scheduling it goes on until it returns.
C20_RunningPassCanStep == PassRunning => ENABLED ScannerStep

\* The first half holds short of the process dying: a started pass returns
\* in the end or a worker's panic ends the process.
C20_PassReturnsOrCrashes == PassRunning ~> (pc = "returned" \/ crashed)

\* C20, second half: while a worker's upstream call has not returned, the
\* worker holds its slot, the WaitGroup counter is positive and StartIndexing
\* has not returned.
C20_PendingCallHoldsPass ==
  \A h \in Heights :
    UnitActive(h) =>
      /\ semaphore >= 1
      /\ wg >= 1
      /\ pc # "returned"
      /\ ~ENABLED WaitDone

\* A step of a persistence goroutine.
PersistStep ==
  \/ \E t \in BagToSet(tasks) : TaskStamp(t)
  \/ \E t \in BagToSet(tasks) : TaskExec(t)

\* The accessor-only model with every started persistence goroutine run to
\* its end.
SpecApiFair == Init /\ [][NextApi]_vars /\ WF_vars(PersistStep)

\* The row of height h carries the data of record rec.
RowCarries(h, rec) ==
  /\ h \in Heights
  /\ db[h].present
  /\ db[h].block_id = rec.BlockID
  /\ db[h].proposer_address = rec.Proposer
  /\ db[h].num_transactions = rec.NumTransactions

\* Request c has been handed its fetched record and a persistence goroutine
\* carrying that record has not run yet.
UpsertPendingOf(c) ==
  /\ calls[c].pc = "fetched"
  /\ \E t \in BagToSet(tasks) :
       /\ t.by = "api"
       /\ t.BlockID = calls[c].result.BlockID
       /\ t.Proposer = calls[c].result.Proposer
       /\ t.NumTransactions = calls[c].result.NumTransactions

\* C21: once a missed request has been handed its fetched record, its upsert
\* pending, the table comes to hold a row of its height with that record's
\* data, unless an upsert fails; a row that exists stays; and a request
\* whose query finds the row of its height (the query itself not failing) is
\* a hit that returns the row.
C21_WriteBackThenHit ==
  /\ \A c \in 1..MaxRequests :
       UpsertPendingOf(c) ~>
          (lostWrites \/ RowCarries(calls[c].height, calls[c].result))
  /\ [][\A c \in 1..MaxRequests :
          /\ (calls[c].pc = "idle" /\ calls'[c].pc # "idle" /\ ~calls'[c].dbfault
              /\ db[calls'[c].height].present) =>
               /\ calls'[c].pc = "hit"
               /\ calls'[c].result = ScanRow(calls'[c].height, db[calls'[c].height])
          /\ (calls[c].pc = "fetched" /\ db[calls[c].height].present) =>
               db'[calls[c].height].present
       ]_vars

\* C21 witness: a request missed and was handed its record, the upsert has
\* run, and a later request for the same height was a hit returning the
\* fetched data.
C21_HitAfterWriteBackWitness ==
  \E c, d \in 1..MaxRequests :
    /\ c # d
    /\ calls[c].pc = "fetched"
    /\ calls[d].pc = "hit"
    /\ calls[d].afterFetch
    /\ calls[d].height = calls[c].height
    /\ calls[d].result.BlockID = calls[c].result.BlockID
    /\ calls[d].result.Proposer = calls[c].result.Proposer
    /\ calls[d].result.NumTransactions = calls[c].result.NumTransactions
    /\ tasks = EmptyBag /\ ~lostWrites

\* The range the driver called StartIndexing with.
CallerRange == minBlockHeight..cfgMaxHeight

\* C22: a failed tip resolution leaves the pass running with the ceiling it
\* was called with: the step in which the resolution fails takes
\* StartIndexing into its loop at that ceiling and ends nothing; from then on
\* the upper bound is the caller's, only heights of the caller's range are
\* fetched, each at most once, and when the loop is over, and when the pass
\* has returned, every height of that range has been fetched exactly once.
C22_TipFailureKeepsRange ==
  /\ [](latestHeight.err =>
          /\ pc \in {"loop", "wait", "returned"}
          /\ maxBlockHeight = cfgMaxHeight
          /\ \A h \in Heights : visited[h] <= 1
          /\ \A h \in Heights : visited[h] > 0 => h \in CallerRange
          /\ pc \in {"wait", "returned"} => \A h \in CallerRange : visited[h] = 1)
  /\ [][(pc = "resolve" /\ latestHeight'.err) =>
          /\ pc' = "loop"
          /\ maxBlockHeight' = cfgMaxHeight
          /\ currentHeight' = cfgMaxHeight
          /\ crashed' = crashed
       ]_vars

\* C22 witness: the tip resolution failed, and the pass has returned having
\* fetched exactly the heights of the caller's range.
C22_FailedTipPassReturnedWitness ==
  /\ latestHeight.err
  /\ pc = "returned"
  /\ maxBlockHeight = cfgMaxHeight
  /\ \A h \in Heights : visited[h] = (IF h \in CallerRange THEN 1 ELSE 0)
  /\ \E h \in CallerRange : units[h].pc = "ok"

====
